---- MODULE Spec2Model ----
(***************************************************************************)
(* Model of the Brainfuck interpreter of src/bfi.py: the constructor, the  *)
(* bracket-matching pass _build_loops_map, the dispatch loop of eval and   *)
(* the __main__ block that runs a script from the command line.            *)
(* Positions, line numbers and the pointer are 0-based as in the source;   *)
(* TLA+ sequences are 1-based, so every access adds 1.                     *)
(***************************************************************************)
EXTENDS Integers, Sequences, FiniteSets, TLC

\* ---------------------------------------------------------------- bounds
MaxLen == 2
MaxWidth == 2
WideWidth == 21
MaxSteps == 30
MaxEvals == 2
MaxInputChar == 3

\* ------------------------------------------------------ program constants
DefaultCellSize == 8
MaxCodePoint == 1114111

INSTRUCTIONS == {">", "<", "+", "-", ".", ",", "[", "]"}

Whitespace == {" "}

NoInstruction == "x"

Alphabet == INSTRUCTIONS \cup {NoInstruction, "\n"}

VARIABLES
    pc,               \* where the instance is: unconstructed, idle, build, outer, inner, halted, ...
    cell_size,        \* constructor argument
    MAX_CELL_VALUE,   \* self._MAX_CELL_VALUE
    pointer,          \* self._pointer
    position,         \* self._position, <<line index, column>>
    size,             \* self._size
    script,           \* self._script, sequence of <<raw line number, line>>
    mem,              \* self._mem
    loops_map,        \* self._loops_map
    position_changed, \* local of eval: "None", "False" or "True"
    line_index,       \* local of _build_loops_map
    scan_position,    \* loop variable `position` of _build_loops_map
    stack,            \* local of _build_loops_map
    error,            \* the BrainfuckException raised, as the numbers of its message
    fault,            \* the uncaught Python exception that ended the run, or "none"
    output,           \* what the run wrote to sys.stdout
    stdin_read,       \* the characters the run read from sys.stdin
    trace,            \* history: the instructions dispatched in this run
    code,             \* argument of the current eval
    evals,            \* history: number of eval calls on this instance
    stale,            \* history: every run-state field was in use when eval was called
    host              \* the caller: a library user or the __main__ block, with the
                      \* type of the cell size it passes, its exit status and its console

vars == <<pc, cell_size, MAX_CELL_VALUE, pointer, position, size, script, mem,
          loops_map, position_changed, line_index, scan_position, stack, error,
          fault, output, stdin_read, trace, code, evals, stale, host>>

\* ------------------------------------------------------------- inputs
RECURSIVE Repeat(_, _)
Repeat(c, n) == IF n = 0 THEN <<>> ELSE <<c>> \o Repeat(c, n - 1)

Pow2(n) == 2 ^ n

StringsUpTo(n) == UNION {[1..k -> Alphabet] : k \in 0..n}

CounterLoops == {Repeat("+", k) \o <<"[", "-", "]">> : k \in 0..(Pow2(MaxWidth) - 1)}

Scenarios ==
    { <<"+", "+", ".">>,
      <<"+", "+", "+">>,
      <<",", "+", "-">>,
      <<">", "<", "<">>,
      <<"[", "]", ">">>,
      <<"<", "<", "+">>,
      <<">", "+", "<", "-", ".">>,
      <<",", ".", ",", ".">>,
      <<"+", "[", "]">>,
      <<"+", "[", ">", "+", "]">>,
      <<"-", "[", "+", "]">>,
      <<"x", " ", "\n", "+", " ", "x", "\n", ".">>,
      <<" ", "\n", " ", "\n">>,
      <<"[", "[", "-", "]">>,
      <<"[", "[", "[">>,
      <<"[", "[", "]", "[">>,
      <<"[", "]", "]", "[">>,
      <<"+", ".", "[">>,
      <<"+", ".", "]">>,
      <<"+", ".", "\n", "]", "]">>,
      <<"\n", "\n", "[", "[">>,
      <<" ", "\n", "x", "]">>,
      <<"[", "\n", "\n", "[">>,
      <<"]", "\n", "[">>,
      <<"[", "[", "]", "]">>,
      <<"[", "[", "]", "[", "]", "]">>,
      <<"[", "\n", "[", "]", "\n", "\n", "]">>,
      <<"+", "[", "\n", "-", "]">>,
      <<"+", "[", "-", "\n", "]", "+">>,
      <<"+", "[", "[", "-", "]", "\n", "]">>,
      <<"+", "[", ">", "+", "[", "-", "]", "<", "-", "]">>,
      <<"+", ">", "[", "x", "+", "]", "<", ".">>,
      <<",", "[", ".", "-", "]">>,
      <<">", "+", "<", ">">>,
      <<"+", ">", ",">>,
      <<"+", "+", "[", "\n", "-", "]">> }

\* the programs given to the first eval of an instance
Codes == StringsUpTo(MaxLen) \cup CounterLoops \cup Scenarios

\* the programs given to a later eval of the same instance
ReuseCodes == CounterLoops \cup Scenarios

CellSizes == ((0 - 1)..MaxWidth) \cup {DefaultCellSize, WideWidth}

InputChars == 0..MaxInputChar

EmptyMap == [p \in {} |-> <<0, 0>>]

NoError == [kind |-> "none", line |-> 0, position |-> 0]

\* ------------------------------------------------- source text to script
RECURSIVE SplitFrom(_, _, _, _)
SplitFrom(text, i, cur, acc) ==
    IF i > Len(text) THEN (IF cur = <<>> THEN acc ELSE Append(acc, cur))
    ELSE IF text[i] = "\n" THEN SplitFrom(text, i + 1, <<>>, Append(acc, cur))
    ELSE SplitFrom(text, i + 1, Append(cur, text[i]), acc)

splitlines(text) == SplitFrom(text, 1, <<>>, <<>>)

strip(ln) == SelectSeq(ln, LAMBDA c : c \notin Whitespace)

RECURSIVE KeepNonBlank(_, _)
KeepNonBlank(lines, i) ==
    IF i > Len(lines) THEN <<>>
    ELSE IF strip(lines[i]) # <<>> THEN <<(<<i - 1, lines[i]>>)>> \o KeepNonBlank(lines, i + 1)
    ELSE KeepNonBlank(lines, i + 1)

ParseScript(text) == KeepNonBlank(splitlines(text), 1)

\* ------------------------------------------------------------ construction
\* the exit status of a process that has not ended
StillRunning == 0 - 1

Init ==
    /\ pc = "unconstructed"
    /\ cell_size = DefaultCellSize
    /\ MAX_CELL_VALUE = 0
    /\ pointer = 0
    /\ position = <<0, 0>>
    /\ size = 1
    /\ script = <<>>
    /\ mem = <<0>>
    /\ loops_map = EmptyMap
    /\ position_changed = "False"
    /\ line_index = 0
    /\ scan_position = 0
    /\ stack = <<>>
    /\ error = NoError
    /\ fault = "none"
    /\ output = <<>>
    /\ stdin_read = <<>>
    /\ trace = <<>>
    /\ code = <<>>
    /\ evals = 0
    /\ stale = FALSE
    /\ host = [kind |-> "none", width |-> "int", status |-> StillRunning, console |-> "none"]

CellSizeRejectedMutantNegative(cs) == cs < 0

\* the test `cell_size < 1` of __init__
CellSizeRejected(cs) == cs < 1

ComputeMaxCellValue(cs) == Pow2(cs) - 1

\* Brainfuck.__init__
Construct ==
    /\ pc = "unconstructed"
    /\ \E cs \in CellSizes :
          /\ cell_size' = cs
          /\ IF CellSizeRejected(cs)
             THEN /\ pc' = "config_error"
                  /\ UNCHANGED MAX_CELL_VALUE
             ELSE /\ pc' = "idle"
                  /\ MAX_CELL_VALUE' = ComputeMaxCellValue(cs)
    /\ host' = [host EXCEPT !.kind = "library"]
    /\ UNCHANGED <<pointer, position, size, script, mem, loops_map, position_changed,
                   line_index, scan_position, stack, error, fault, output,
                   stdin_read, trace, code, evals, stale>>

\* ------------------------------------------------- the __main__ block
\* The model takes the semantics of Python 3, as it does for chr in _print.
\* A command line: an option getopt does not know, --help, --cell-size (given as
\* --cell-size=NUM, or as two words when separate), NUM, and a script path at the end.
CommandLines == [unknown : BOOLEAN, help : BOOLEAN, given : BOOLEAN, separate : BOOLEAN,
                 text : CellSizes, path : BOOLEAN]

\* len(sys.argv)
ArgvLen(a) == 1 + (IF a.help THEN 1 ELSE 0) + (IF a.path THEN 1 ELSE 0)
                + (IF a.given THEN (IF a.separate THEN 2 ELSE 1) ELSE 0)

\* len(opts)
OptsLen(a) == (IF a.help THEN 1 ELSE 0) + (IF a.given THEN 1 ELSE 0)

\* `help or len(sys.argv) - len(opts) < 2`
UsageRequested(a) == a.help \/ ArgvLen(a) - OptsLen(a) < 2

\* c_size is the int 8 unless --cell-size is given: then it is the option's text, a str
WidthType(a) == IF a.given THEN "str" ELSE "int"

\* `cell_size < 1` raises TypeError when cell_size is a str
ComparableWithInt(type) == type = "int"

\* the process ends with this exit status, having shown this on the console
ProcessEnds(type, status, console) ==
    /\ pc' = "exited"
    /\ host' = [kind |-> "cli", width |-> type, status |-> status, console |-> console]

\* the __main__ block up to the call of run
Main ==
    /\ pc = "unconstructed"
    /\ \E a \in CommandLines :
          IF a.unknown
          THEN /\ ProcessEnds("int", 2, "getopt")
               /\ UNCHANGED <<cell_size, MAX_CELL_VALUE>>
          ELSE IF UsageRequested(a)
          THEN /\ ProcessEnds("int", 0, "usage")
               /\ UNCHANGED <<cell_size, MAX_CELL_VALUE>>
          ELSE
          /\ cell_size' = (IF a.given THEN a.text ELSE DefaultCellSize)
          /\ IF ~ComparableWithInt(WidthType(a))
             THEN /\ ProcessEnds(WidthType(a), 1, "traceback")
                  /\ UNCHANGED MAX_CELL_VALUE
             ELSE IF CellSizeRejected(cell_size')
             THEN /\ ProcessEnds(WidthType(a), 0, "message")
                  /\ UNCHANGED MAX_CELL_VALUE
             ELSE /\ pc' = "idle"
                  /\ MAX_CELL_VALUE' = ComputeMaxCellValue(cell_size')
                  /\ host' = [host EXCEPT !.kind = "cli", !.width = WidthType(a)]
    /\ UNCHANGED <<pointer, position, size, script, mem, loops_map, position_changed,
                   line_index, scan_position, stack, error, fault, output,
                   stdin_read, trace, code, evals, stale>>

\* _readfile cannot read the script: sys.exit(str(error))
ReadFails ==
    /\ pc = "idle" /\ host.kind = "cli" /\ evals = 0
    /\ ProcessEnds(host.width, 1, "io_error")
    /\ UNCHANGED <<cell_size, MAX_CELL_VALUE, pointer, position, size, script, mem,
                   loops_map, position_changed, line_index, scan_position, stack, error,
                   fault, output, stdin_read, trace, code, evals, stale>>

\* run returned or raised: a BrainfuckException is printed and the block ends, any
\* other exception leaves the process with a traceback and exit status 1
Exit ==
    /\ host.kind = "cli" /\ host.status = StillRunning
    /\ pc \in {"halted", "syntax_error", "fault"}
    /\ host' = [host EXCEPT !.status = IF pc = "fault" THEN 1 ELSE 0,
                            !.console = CASE pc = "fault" -> "traceback"
                                          [] pc = "syntax_error" -> "message"
                                          [] OTHER -> "none"]
    /\ UNCHANGED <<pc, cell_size, MAX_CELL_VALUE, pointer, position, size, script, mem,
                   loops_map, position_changed, line_index, scan_position, stack, error,
                   fault, output, stdin_read, trace, code, evals, stale>>

\* ------------------------------------------------------------------ eval
ResetMutantKeepMem == [pointer |-> 0, position |-> <<0, 0>>, size |-> 1, script |-> <<>>,
                       mem |-> mem, loops_map |-> EmptyMap]

\* Brainfuck._reset: the values the run-state fields are set to
ResetState == [pointer |-> 0, position |-> <<0, 0>>, size |-> 1, script |-> <<>>,
               mem |-> <<0>>, loops_map |-> EmptyMap]

\* every run-state field differs from the value the class gives it
AllFieldsUsed == pointer # 0 /\ position # <<0, 0>> /\ size # 1 /\ script # <<>>
                 /\ mem # <<0>> /\ loops_map # EmptyMap

\* Brainfuck.eval up to the call of _build_loops_map
Eval ==
    /\ pc \in {"idle", "halted", "syntax_error", "fault"}
    /\ evals < MaxEvals
    /\ host.kind = "cli" => evals = 0
    /\ \E text \in (IF evals = 0 THEN Codes ELSE ReuseCodes) :
          /\ code' = text
          /\ script' = ParseScript(text)
    /\ pointer' = ResetState.pointer
    /\ position' = ResetState.position
    /\ size' = ResetState.size
    /\ mem' = ResetState.mem
    /\ loops_map' = ResetState.loops_map
    /\ line_index' = 0
    /\ scan_position' = 0
    /\ stack' = <<>>
    /\ pc' = "build"
    /\ error' = NoError
    /\ fault' = "none"
    /\ output' = <<>>
    /\ stdin_read' = <<>>
    /\ trace' = <<>>
    /\ evals' = evals + 1
    /\ stale' = AllFieldsUsed
    /\ UNCHANGED <<cell_size, MAX_CELL_VALUE, position_changed, host>>

\* ------------------------------------------------------- _build_loops_map
Scanning == pc = "build" /\ line_index < Len(script)

ScanLine == script[line_index + 1][2]

ScanLineNoMutantFilteredIndex == line_index

\* line_no of `line_no, line = self._script[line_index]`
ScanLineNo == script[line_index + 1][1]

ScanAt(c) == Scanning /\ scan_position < Len(ScanLine) /\ ScanLine[scan_position + 1] = c

UnexpectedReportMutantZeroBased(line_no, col) ==
    [kind |-> "unexpected", line |-> line_no + 1, position |-> col]

\* the numbers formatted into "Unexpected closing bracket in line %s at position %s"
UnexpectedReport(line_no, col) ==
    [kind |-> "unexpected", line |-> line_no + 1, position |-> col + 1]

PoppedIndexMutantOldest(stk) == 1

\* list.pop(): the index (1-based here) of the element stack.pop() removes and returns
PoppedIndex(stk) == Len(stk)

Popped(stk) == stk[PoppedIndex(stk)]

AfterPop(stk) == [i \in 1..(Len(stk) - 1) |-> IF i < PoppedIndex(stk) THEN stk[i] ELSE stk[i + 1]]

UnclosedBracketMutantOldest(stk) == stk[1]

\* bracket_position = stack.pop() after the scan
UnclosedBracket(stk) == Popped(stk)

\* the numbers formatted into "Unclosed bracket in line %s at position %s"
UnclosedReport(stk) ==
    [kind |-> "unclosed", line |-> UnclosedBracket(stk)[1] + 1,
     position |-> UnclosedBracket(stk)[2][2] + 1]

StackLeftMutantOffByOne(stk) == Len(stk) > 1

\* the test `len(stack) > 0` after the scan
StackLeft(stk) == Len(stk) > 0

RecordPairMutantOneWay(map, start, close) == (start :> close) @@ map

\* the two assignments into self._loops_map
RecordPair(map, start, close) == (close :> start) @@ (start :> close) @@ map

\* "[" == instruction
BuildOpen ==
    /\ ScanAt("[")
    /\ stack' = Append(stack, <<ScanLineNo, <<line_index, scan_position>>>>)
    /\ scan_position' = scan_position + 1
    /\ UNCHANGED <<pc, cell_size, MAX_CELL_VALUE, pointer, position, size, script, mem,
                   loops_map, position_changed, line_index, error, fault, output,
                   stdin_read, trace, code, evals, stale, host>>

\* "]" == instruction
BuildClose ==
    /\ ScanAt("]")
    /\ IF 0 = Len(stack)
       THEN /\ pc' = "syntax_error"
            /\ error' = UnexpectedReport(ScanLineNo, scan_position)
            /\ UNCHANGED <<stack, loops_map, scan_position>>
       ELSE /\ loops_map' = RecordPair(loops_map, Popped(stack)[2], <<line_index, scan_position>>)
            /\ stack' = AfterPop(stack)
            /\ scan_position' = scan_position + 1
            /\ UNCHANGED <<pc, error>>
    /\ UNCHANGED <<cell_size, MAX_CELL_VALUE, pointer, position, size, script, mem,
                   position_changed, line_index, fault, output, stdin_read, trace,
                   code, evals, stale, host>>

\* any other character of the line
BuildSkip ==
    /\ Scanning
    /\ scan_position < Len(ScanLine)
    /\ ScanLine[scan_position + 1] \notin {"[", "]"}
    /\ scan_position' = scan_position + 1
    /\ UNCHANGED <<pc, cell_size, MAX_CELL_VALUE, pointer, position, size, script, mem,
                   loops_map, position_changed, line_index, stack, error, fault, output,
                   stdin_read, trace, code, evals, stale, host>>

\* the for loop over the line is exhausted: line_index += 1
BuildNextLine ==
    /\ Scanning
    /\ scan_position >= Len(ScanLine)
    /\ line_index' = line_index + 1
    /\ scan_position' = 0
    /\ UNCHANGED <<pc, cell_size, MAX_CELL_VALUE, pointer, position, size, script, mem,
                   loops_map, position_changed, stack, error, fault, output,
                   stdin_read, trace, code, evals, stale, host>>

\* the while loop is exhausted: raise on a pending bracket, else return to eval
BuildEnd ==
    /\ pc = "build"
    /\ line_index >= Len(script)
    /\ IF StackLeft(stack)
       THEN /\ pc' = "syntax_error"
            /\ error' = UnclosedReport(stack)
            /\ stack' = AfterPop(stack)
       ELSE /\ pc' = "outer"
            /\ UNCHANGED <<error, stack>>
    /\ UNCHANGED <<cell_size, MAX_CELL_VALUE, pointer, position, size, script, mem,
                   loops_map, position_changed, line_index, scan_position, fault,
                   output, stdin_read, trace, code, evals, stale, host>>

\* ------------------------------------------------------ instruction handlers
CurLine == script[position[1] + 1][2]

InLine == pc = "inner" /\ position[2] < Len(CurLine)

CurInstruction == CurLine[position[2] + 1]

\* `instruction in self._INSTRUCTIONS` holds and the handler for c is called
At(c) == InLine /\ CurInstruction = c /\ Len(trace) < MaxSteps

\* a Python list index is valid from -len to len - 1
IndexValid(p, m) == (0 - Len(m)) <= p /\ p < Len(m)

IndexOf(p, m) == IF p < 0 THEN Len(m) + p + 1 ELSE p + 1

Cell == mem[IndexOf(pointer, mem)]

StoreCell(v) == mem' = [mem EXCEPT ![IndexOf(pointer, mem)] = v]

Dispatched == trace' = Append(trace, <<position, CurInstruction>>)

\* self._position = (self._position[0], self._position[1] + 1) after a falsy result
NextColumn == position' = <<position[1], position[2] + 1>>

Raise(exc) == pc' = "fault" /\ fault' = exc

idle_vars == <<cell_size, MAX_CELL_VALUE, script, loops_map, line_index, scan_position,
               stack, error, code, evals, stale, host>>

ExpandNeededMutantLate(p, sz) == p + 1 > sz

\* the test of _move_forward
ExpandNeeded(p, sz) == p + 1 >= sz

\* _move_forward, with _expand_buffer
move_forward ==
    /\ At(">")
    /\ Dispatched
    /\ IF ExpandNeeded(pointer, size)
       THEN mem' = Append(mem, 0) /\ size' = size + 1
       ELSE UNCHANGED <<mem, size>>
    /\ pointer' = pointer + 1
    /\ position_changed' = "None"
    /\ NextColumn
    /\ UNCHANGED <<idle_vars, pc, fault, output, stdin_read>>

MovedBackwardMutantUnguarded(p) == p - 1

\* the pointer after _move_backward
MovedBackward(p) == IF p - 1 >= 0 THEN p - 1 ELSE p

move_backward ==
    /\ At("<")
    /\ Dispatched
    /\ pointer' = MovedBackward(pointer)
    /\ position_changed' = "None"
    /\ NextColumn
    /\ UNCHANGED <<idle_vars, pc, fault, output, stdin_read, mem, size>>

IncreasedMutantNoWrap(v, max) == v + 1

\* the value _increase stores
Increased(v, max) == IF v + 1 <= max THEN v + 1 ELSE 0

increase ==
    /\ At("+")
    /\ Dispatched
    /\ IF IndexValid(pointer, mem)
       THEN /\ StoreCell(Increased(Cell, MAX_CELL_VALUE))
            /\ position_changed' = "None"
            /\ NextColumn
            /\ UNCHANGED <<pc, fault>>
       ELSE /\ Raise("IndexError")
            /\ UNCHANGED <<mem, position_changed, position>>
    /\ UNCHANGED <<idle_vars, output, stdin_read, pointer, size>>

DecreasedMutantWrapToZero(v, max) == IF v - 1 >= 0 THEN v - 1 ELSE 0

\* the value _decrease stores
Decreased(v, max) == IF v - 1 >= 0 THEN v - 1 ELSE max

decrease ==
    /\ At("-")
    /\ Dispatched
    /\ IF IndexValid(pointer, mem)
       THEN /\ StoreCell(Decreased(Cell, MAX_CELL_VALUE))
            /\ position_changed' = "None"
            /\ NextColumn
            /\ UNCHANGED <<pc, fault>>
       ELSE /\ Raise("IndexError")
            /\ UNCHANGED <<mem, position_changed, position>>
    /\ UNCHANGED <<idle_vars, output, stdin_read, pointer, size>>

\* chr(i) is defined for 0 <= i <= 0x10FFFF and raises ValueError otherwise
ChrDefined(v) == 0 <= v /\ v <= MaxCodePoint

Written(v) == [kind |-> "chr", cp |-> v]

Prompt == [kind |-> "prompt", cp |-> 0]

Newline == [kind |-> "newline", cp |-> 10]

\* _print
print ==
    /\ At(".")
    /\ Dispatched
    /\ IF ~IndexValid(pointer, mem)
       THEN /\ Raise("IndexError")
            /\ UNCHANGED <<output, position_changed, position>>
       ELSE IF ~ChrDefined(Cell)
       THEN /\ Raise("ValueError")
            /\ UNCHANGED <<output, position_changed, position>>
       ELSE /\ output' = Append(output, Written(Cell))
            /\ position_changed' = "None"
            /\ NextColumn
            /\ UNCHANGED <<pc, fault>>
    /\ UNCHANGED <<idle_vars, stdin_read, pointer, size, mem>>

\* sys.stdin.read(1) returns "" at the end of the input
EndOfInput == 0 - 1

ReadValueMutantModPow(c, max) == c % (max + 1)

\* the value _read stores for the character with code point c
ReadValue(c, max) == c % max

\* _read
read ==
    /\ At(",")
    /\ Dispatched
    /\ output' = Append(output, Prompt)
    /\ \E c \in InputChars \cup {EndOfInput} :
          IF c = EndOfInput
          THEN /\ Raise("TypeError")
               /\ UNCHANGED <<mem, stdin_read, position_changed, position>>
          ELSE IF MAX_CELL_VALUE = 0
          THEN /\ Raise("ZeroDivisionError")
               /\ stdin_read' = Append(stdin_read, c)
               /\ UNCHANGED <<mem, position_changed, position>>
          ELSE IF ~IndexValid(pointer, mem)
          THEN /\ Raise("IndexError")
               /\ stdin_read' = Append(stdin_read, c)
               /\ UNCHANGED <<mem, position_changed, position>>
          ELSE /\ stdin_read' = Append(stdin_read, c)
               /\ StoreCell(ReadValue(c, MAX_CELL_VALUE))
               /\ position_changed' = "None"
               /\ NextColumn
               /\ UNCHANGED <<pc, fault>>
    /\ UNCHANGED <<idle_vars, pointer, size>>

\* self._position = self._loops_map[self._position]; return True (the dispatch loop breaks)
Jump ==
    IF position \in DOMAIN loops_map
    THEN /\ position' = loops_map[position]
         /\ position_changed' = "True"
         /\ pc' = "outer"
         /\ UNCHANGED fault
    ELSE /\ Raise("KeyError")
         /\ UNCHANGED <<position, position_changed>>

\* return False: the dispatch loop steps to the next column
FallThrough ==
    /\ position_changed' = "False"
    /\ NextColumn
    /\ UNCHANGED <<pc, fault>>

LoopStartSkipsMutantNever(v) == FALSE

\* _loop_start jumps to the end of the loop when the cell is 0
LoopStartSkips(v) == ~(0 # v)

loop_start ==
    /\ At("[")
    /\ Dispatched
    /\ IF ~IndexValid(pointer, mem)
       THEN Raise("IndexError") /\ UNCHANGED <<position, position_changed>>
       ELSE IF LoopStartSkips(Cell) THEN Jump ELSE FallThrough
    /\ UNCHANGED <<idle_vars, output, stdin_read, pointer, size, mem>>

LoopEndRepeatsMutantAlways(v) == TRUE

LoopEndRepeatsMutantNever(v) == FALSE

\* _loop_end jumps back to the loop start when the cell is not 0
LoopEndRepeats(v) == ~(0 = v)

loop_end ==
    /\ At("]")
    /\ Dispatched
    /\ IF ~IndexValid(pointer, mem)
       THEN Raise("IndexError") /\ UNCHANGED <<position, position_changed>>
       ELSE IF LoopEndRepeats(Cell) THEN Jump ELSE FallThrough
    /\ UNCHANGED <<idle_vars, output, stdin_read, pointer, size, mem>>

\* ------------------------------------------------------- the dispatch loop
\* a character that is no instruction: only the column moves
SkipCharacter ==
    /\ InLine
    /\ CurInstruction \notin INSTRUCTIONS
    /\ NextColumn
    /\ UNCHANGED <<idle_vars, pc, fault, output, stdin_read, pointer, size, mem,
                   position_changed, trace>>

IsFalseMutantIsNone(flag) == flag = "None"

\* `position_changed is False`
IsFalse(flag) == flag = "False"

\* the inner while ends at the end of the line
EndOfLine ==
    /\ pc = "inner"
    /\ position[2] >= Len(CurLine)
    /\ IF IsFalse(position_changed)
       THEN position' = <<position[1] + 1, 0>>
       ELSE UNCHANGED position
    /\ pc' = "outer"
    /\ UNCHANGED <<idle_vars, fault, output, stdin_read, pointer, size, mem,
                   position_changed, trace>>

\* the test of the outer while: the next line starts, or the run ends with print("")
NextLineOrHalt ==
    /\ pc = "outer"
    /\ IF position[1] < Len(script)
       THEN /\ position_changed' = "False"
            /\ pc' = "inner"
            /\ UNCHANGED output
       ELSE /\ pc' = "halted"
            /\ output' = Append(output, Newline)
            /\ UNCHANGED position_changed
    /\ UNCHANGED <<idle_vars, fault, stdin_read, pointer, size, mem, position, trace>>

Next ==
    \/ Construct
    \/ Main
    \/ ReadFails
    \/ Exit
    \/ Eval
    \/ BuildOpen
    \/ BuildClose
    \/ BuildSkip
    \/ BuildNextLine
    \/ BuildEnd
    \/ move_forward
    \/ move_backward
    \/ increase
    \/ decrease
    \/ print
    \/ read
    \/ loop_start
    \/ loop_end
    \/ SkipCharacter
    \/ EndOfLine
    \/ NextLineOrHalt

Spec == Init /\ [][Next]_vars

\* a run never stops while a statement is left to execute
Run ==
    \/ BuildOpen \/ BuildClose \/ BuildSkip \/ BuildNextLine \/ BuildEnd
    \/ move_forward \/ move_backward \/ increase \/ decrease \/ print \/ read
    \/ loop_start \/ loop_end \/ SkipCharacter \/ EndOfLine \/ NextLineOrHalt
    \/ Exit

FairSpec == Spec /\ WF_vars(Run)

\* ------------------------------------------- the program text, for the claims
RECURSIVE FlattenFrom(_, _)
FlattenFrom(scr, k) ==
    IF k > Len(scr) THEN <<>>
    ELSE [c \in 1..Len(scr[k][2]) |->
             [no |-> scr[k][1], li |-> k - 1, col |-> c - 1, ch |-> scr[k][2][c]]]
         \o FlattenFrom(scr, k + 1)

\* the characters of Program in scan order, each with its raw line number and its Position
Flat == FlattenFrom(script, 1)

Pos(e) == <<e.li, e.col>>

Depth(f, i) == Cardinality({j \in 1..i : f[j].ch = "["}) - Cardinality({j \in 1..i : f[j].ch = "]"})

BalancedBetween(f, a, b) ==
    /\ \A m \in a..b : Depth(f, m) >= Depth(f, a - 1)
    /\ Depth(f, b) = Depth(f, a - 1)

Balanced(f) == BalancedBetween(f, 1, Len(f))

Matches(f, i, j) == i < j /\ f[i].ch = "[" /\ f[j].ch = "]" /\ BalancedBetween(f, i + 1, j - 1)

UnmatchedOpens(f) == {i \in 1..Len(f) : f[i].ch = "[" /\ ~ \E j \in 1..Len(f) : Matches(f, i, j)}

UnexpectedCloses(f) == {i \in 1..Len(f) : Depth(f, i) < 0}

Least(S) == CHOOSE x \in S : \A y \in S : x <= y

Greatest(S) == CHOOSE x \in S : \A y \in S : x >= y

Constructed == pc \notin {"unconstructed", "config_error", "exited"}

Executed(c) == \E i \in 1..Len(trace) : trace[i][2] = c

Count(c) == Cardinality({i \in 1..Len(trace) : trace[i][2] = c})

\* ------------------------------------------------------------------ claims

\* C1: in every state of a run, for every cell width w >= 1, every tape cell holds a
\* value in [0, 2^w - 1], and the stored maximum is 2^w - 1.
CellsInRange ==
    Constructed =>
        /\ cell_size >= 1
        /\ MAX_CELL_VALUE = Pow2(cell_size) - 1
        /\ \A i \in 1..Len(mem) : 0 <= mem[i] /\ mem[i] <= Pow2(cell_size) - 1

\* C1 witness: a run that incremented, decremented and read input has ended.
CellsInRangeWitness ==
    pc = "halted" /\ Executed("+") /\ Executed("-") /\ Executed(",") /\ cell_size = MaxWidth

\* C2: the pointer always indexes an existing cell and _size is the tape length; a
\* move-left executed at pointer 0 leaves the pointer at 0 and raises nothing.
PointerInRange ==
    /\ [](0 <= pointer /\ pointer < Len(mem) /\ size = Len(mem))
    /\ [][(At("<") /\ pointer = 0) => (pointer' = 0 /\ pc' = "inner" /\ fault' = "none")]_vars

\* C2 witness: the run moved right once, then left twice (the second at pointer 0), and
\* the pointer is 0 on a tape of two cells.
PointerInRangeWitness ==
    /\ Len(trace) = 3
    /\ trace[1][2] = ">" /\ trace[2][2] = "<" /\ trace[3][2] = "<"
    /\ pointer = 0 /\ Len(mem) = 2

\* C3: an increment stores (v + 1) mod 2^w and a decrement (v - 1) mod 2^w, every other
\* cell unchanged; with width 1 the program +++ takes the cell through 1, 0, 1 and
\* ends with tape [1].
IncrementDecrementWrap ==
    [][ /\ At("+") => mem' = [mem EXCEPT ![pointer + 1] = (mem[pointer + 1] + 1) % Pow2(cell_size)]
        /\ At("-") => mem' = [mem EXCEPT ![pointer + 1] = (mem[pointer + 1] - 1) % Pow2(cell_size)]
        /\ (code' = <<"+", "+", "+">> /\ cell_size' = 1 /\ pc' \in {"inner", "outer", "halted"})
              => /\ mem' = << Len(trace') % 2 >>
                 /\ pc' = "halted" => (Len(trace') = 3 /\ mem' = <<1>>)
      ]_vars

\* C3 witness: the program +++ has ended under width 1 with tape [1].
IncrementDecrementWrapWitness ==
    code = <<"+", "+", "+">> /\ cell_size = 1 /\ pc = "halted" /\ mem = <<1>> /\ Len(trace) = 3

ReportedAt(e) == error.line = e.no + 1 /\ error.position = e.col + 1

\* C4 as stated: an 'unclosed bracket' error reports the oldest (first-opened) unmatched
\* loop-open.
UnclosedReportsOldest ==
    (pc = "syntax_error" /\ error.kind = "unclosed") =>
        ReportedAt(Flat[Least(UnmatchedOpens(Flat))])

\* C4 amended: when the scan ends with loop-opens unmatched, the build fails with an
\* 'unclosed bracket' error that reports the most recently opened unmatched loop-open
\* (the last one in scan order), never a bracket of a matched pair; with a single
\* unmatched loop-open that is the one reported.
UnclosedReportsNewest ==
    /\ (pc = "syntax_error" /\ error.kind = "unclosed") =>
          /\ UnmatchedOpens(Flat) # {}
          /\ UnexpectedCloses(Flat) = {}
          /\ ReportedAt(Flat[Greatest(UnmatchedOpens(Flat))])
          /\ Cardinality(UnmatchedOpens(Flat)) = 1 => ReportedAt(Flat[Least(UnmatchedOpens(Flat))])
    /\ (Constructed /\ UnmatchedOpens(Flat) # {} /\ UnexpectedCloses(Flat) = {}) =>
          \/ pc = "build"
          \/ pc = "syntax_error" /\ error.kind = "unclosed"

\* C4 witness: the build failed with two loop-opens unmatched and a matched pair between.
UnclosedReportsNewestWitness ==
    /\ pc = "syntax_error" /\ error.kind = "unclosed"
    /\ Cardinality(UnmatchedOpens(Flat)) >= 2
    /\ loops_map # EmptyMap

\* C5: a loop-close met while no loop-open is pending fails the build at once with an
\* 'unexpected closing bracket' error located at that character (the first such one in
\* scan order), the column 1-based; the scan never goes past it.
UnexpectedReportsFirst ==
    (Constructed /\ UnexpectedCloses(Flat) # {}) =>
        LET first == Flat[Least(UnexpectedCloses(Flat))] IN
        /\ pc \in {"build", "syntax_error"}
        /\ line_index < first.li \/ (line_index = first.li /\ scan_position <= first.col)
        /\ pc = "syntax_error" =>
              /\ error.kind = "unexpected"
              /\ ReportedAt(first)
              /\ <<line_index, scan_position>> = Pos(first)

\* C5 witness: the build failed at a loop-close that follows a matched pair and is
\* followed by another bracket.
UnexpectedReportsFirstWitness ==
    /\ pc = "syntax_error" /\ error.kind = "unexpected"
    /\ loops_map # EmptyMap
    /\ Least(UnexpectedCloses(Flat)) < Len(Flat)
    /\ Flat[Len(Flat)].ch \in {"[", "]"}

\* C6: a run of a program with unbalanced delimiters executes no instruction: the tape
\* is [0], the pointer 0, nothing is written and no input is requested.
UnbalancedNeverRuns ==
    (Constructed /\ ~Balanced(Flat)) =>
        /\ pc \in {"build", "syntax_error"}
        /\ trace = <<>> /\ mem = <<0>> /\ pointer = 0 /\ size = 1
        /\ position = <<0, 0>> /\ output = <<>> /\ stdin_read = <<>>

\* C6 witness: the build failed on a program that starts with the instructions + and .
UnbalancedNeverRunsWitness ==
    /\ pc = "syntax_error"
    /\ Len(Flat) >= 3 /\ Flat[1].ch = "+" /\ Flat[2].ch = "."

\* ------------------------------------- a linear reference evaluator, for the claims
\* One offset runs over the characters of Program in scan order; brackets are matched
\* by nesting. The result of a run is its output, final tape and final pointer.
MatchOf(f, i) ==
    IF f[i].ch = "["
    THEN CHOOSE j \in 1..Len(f) : Matches(f, i, j)
    ELSE CHOOSE j \in 1..Len(f) : Matches(f, j, i)

RECURSIVE LinearRun(_, _, _, _)
LinearRun(f, max, inputs, r) ==
    IF r.ip > Len(f)
    THEN [status |-> "halted", output |-> Append(r.out, Newline), mem |-> r.tape, pointer |-> r.ptr]
    ELSE IF f[r.ip].ch \notin INSTRUCTIONS
    THEN LinearRun(f, max, inputs, [r EXCEPT !.ip = @ + 1])
    ELSE IF r.fuel = 0
    THEN [status |-> "cut", output |-> r.out, mem |-> r.tape, pointer |-> r.ptr]
    ELSE
    LET c == f[r.ip].ch
        v == r.tape[r.ptr + 1]
        s == [r EXCEPT !.fuel = @ - 1, !.ip = @ + 1]
    IN  CASE c = ">" ->
               LinearRun(f, max, inputs,
                         [s EXCEPT !.ptr = @ + 1,
                                   !.tape = IF r.ptr + 1 = Len(r.tape) THEN Append(@, 0) ELSE @])
          [] c = "<" ->
               LinearRun(f, max, inputs, [s EXCEPT !.ptr = IF @ > 0 THEN @ - 1 ELSE 0])
          [] c = "+" ->
               LinearRun(f, max, inputs, [s EXCEPT !.tape[r.ptr + 1] = IF v = max THEN 0 ELSE v + 1])
          [] c = "-" ->
               LinearRun(f, max, inputs, [s EXCEPT !.tape[r.ptr + 1] = IF v = 0 THEN max ELSE v - 1])
          [] c = "." ->
               IF v > MaxCodePoint
               THEN [status |-> "fault", output |-> r.out, mem |-> r.tape, pointer |-> r.ptr]
               ELSE LinearRun(f, max, inputs, [s EXCEPT !.out = Append(@, Written(v))])
          [] c = "," ->
               IF r.used >= Len(inputs)
               THEN [status |-> "fault", output |-> Append(r.out, Prompt), mem |-> r.tape,
                     pointer |-> r.ptr]
               ELSE LinearRun(f, max, inputs,
                              [s EXCEPT !.out = Append(@, Prompt), !.used = @ + 1,
                                        !.tape[r.ptr + 1] = inputs[r.used + 1] % max])
          [] c = "[" ->
               LinearRun(f, max, inputs, [s EXCEPT !.ip = IF v = 0 THEN MatchOf(f, r.ip) ELSE r.ip + 1])
          [] c = "]" ->
               LinearRun(f, max, inputs, [s EXCEPT !.ip = IF v # 0 THEN MatchOf(f, r.ip) ELSE r.ip + 1])

FreshRun(f, w, inputs) ==
    LinearRun(f, Pow2(w) - 1, inputs,
              [ip |-> 1, ptr |-> 0, tape |-> <<0>>, out |-> <<>>, used |-> 0, fuel |-> MaxSteps])

\* C7: no state survives from one eval to the next: every eval, whatever the previous
\* one left behind, starts from tape [0], pointer 0, cursor (0,0), an empty jump table
\* and the script of its own code, and a run that ends has the output, final tape and
\* final pointer that the program, the cell width and the input read determine (those
\* of the first run of a new instance, which is a run of this model too).
NoStateSurvives ==
    /\ (pc = "build" /\ line_index = 0 /\ scan_position = 0 /\ stack = <<>>) =>
          /\ pointer = 0 /\ position = <<0, 0>> /\ size = 1 /\ mem = <<0>>
          /\ loops_map = EmptyMap
          /\ script = ParseScript(code)
    /\ pc = "halted" =>
          [status |-> "halted", output |-> output, mem |-> mem, pointer |-> pointer]
              = FreshRun(Flat, cell_size, stdin_read)

\* C7 witness: a second eval, called when the previous one had left a moved pointer, a
\* grown tape, a moved cursor and a non-empty jump table, has run instructions and ended.
NoStateSurvivesWitness ==
    evals = 2 /\ stale /\ pc = "halted" /\ Len(trace) >= 2 /\ mem # <<0>> /\ stdin_read # <<>>

Brackets(f) == {i \in 1..Len(f) : f[i].ch \in {"[", "]"}}

\* C8: for every balanced program the build succeeds and the jump table holds exactly
\* the brackets: each loop-open maps to the one loop-close that closes it under proper
\* nesting (the text between them is balanced), that close maps back to the open, and
\* the round trip returns every bracket to itself.
JumpTableMatches ==
    LET f == Flat IN
    /\ (Constructed /\ Balanced(f)) => pc # "syntax_error"
    /\ pc \in {"outer", "inner", "halted", "fault"} =>
          /\ Balanced(f)
          /\ DOMAIN loops_map = {Pos(f[i]) : i \in Brackets(f)}
          /\ \A i \in Brackets(f) :
                /\ f[i].ch = "[" => Cardinality({j \in 1..Len(f) : Matches(f, i, j)}) = 1
                /\ f[i].ch = "]" => Cardinality({j \in 1..Len(f) : Matches(f, j, i)}) = 1
                /\ loops_map[Pos(f[i])] = Pos(f[MatchOf(f, i)])
                /\ loops_map[loops_map[Pos(f[i])]] = Pos(f[i])

\* C8 witness: a run has ended of a program with a loop nested in a loop whose
\* delimiters lie on different lines.
JumpTableMatchesWitness ==
    /\ pc = "halted"
    /\ \E i, j, k, l \in 1..Len(Flat) :
          /\ i < j /\ k < l
          /\ Matches(Flat, i, l) /\ Matches(Flat, j, k)
          /\ Flat[i].li # Flat[l].li

\* C9: after a successful build a run ends only by halting: no dispatch step raises,
\* whatever the cell width, the cell values and the characters the input supplies are
\* (a read at the end of the input, which supplies no character, is left aside).
RunNeverFaults == pc = "fault" => (fault = "TypeError" /\ output[Len(output)] = Prompt)

IsCounterLoop == code \in CounterLoops /\ Len(code) - 3 <= MAX_CELL_VALUE

\* C10: for every cell width and every k in [0, MaxCellValue] the program of k
\* increments followed by [-] halts; the loop body has then run exactly k times, the
\* tape is [0] and no instruction has written anything (the output is only the newline
\* that ends every run).
CounterLoopHalts ==
    /\ []((IsCounterLoop /\ pc = "halted") =>
             /\ Count("-") = Len(code) - 3
             /\ Count("+") = Len(code) - 3
             /\ mem = <<0>> /\ pointer = 0
             /\ output = <<Newline>>)
    /\ (IsCounterLoop /\ pc = "build") ~> (IsCounterLoop /\ pc = "halted")

\* C10 witness: the run of MaxCellValue >= 2 increments followed by [-] has ended.
CounterLoopHaltsWitness ==
    /\ IsCounterLoop /\ pc = "halted"
    /\ Len(code) - 3 = MAX_CELL_VALUE /\ MAX_CELL_VALUE >= 2
    /\ Count("-") = MAX_CELL_VALUE

\* the step is an input instruction that received the character it then stores
ReadStored == At(",") /\ pc' = "inner" /\ Len(stdin_read') = Len(stdin_read) + 1

\* C11: an input step that receives the character with code point c stores
\* c mod MaxCellValue (not c mod (MaxCellValue + 1)) in the current cell and leaves the
\* pointer and every other cell as they were; the value stored is never MaxCellValue,
\* and with cell width 1 it is always 0.
InputStoresModMax ==
    [][ReadStored =>
          LET c == stdin_read'[Len(stdin_read')] IN
          /\ mem' = [mem EXCEPT ![pointer + 1] = c % (Pow2(cell_size) - 1)]
          /\ pointer' = pointer
          /\ mem'[pointer + 1] # Pow2(cell_size) - 1
          /\ cell_size = 1 => mem'[pointer + 1] = 0
      ]_vars

\* C11 witness: the last step read the character whose code point is MaxCellValue into a
\* cell other than the first, which holds 0 now and would hold MaxCellValue had the
\* modulus been MaxCellValue + 1; the first cell kept its value.
InputStoresModMaxWitness ==
    /\ pc = "inner" /\ Len(trace) >= 1 /\ trace[Len(trace)][2] = ","
    /\ stdin_read # <<>> /\ stdin_read[Len(stdin_read)] = MAX_CELL_VALUE
    /\ cell_size = MaxWidth /\ pointer = 1 /\ mem[2] = 0 /\ mem[1] # 0

\* C12: every executed output instruction appends exactly one character to the output,
\* the one whose code point is the value of the current cell, and changes neither the
\* tape nor the pointer; for width 8 the program ++. ends with the character of code
\* point 2 written and tape [2].
OutputAppendsCell ==
    [][ /\ At(".") =>
              /\ output' = Append(output, Written(mem[pointer + 1]))
              /\ mem' = mem /\ pointer' = pointer
        /\ (code' = <<"+", "+", ".">> /\ cell_size' = DefaultCellSize /\ pc' = "halted") =>
              /\ output' = <<Written(2), Newline>>
              /\ mem' = <<2>>
      ]_vars

\* the step belongs to a run (it is not the call of eval that starts the next run)
RunStep == pc \in {"build", "outer", "inner"}

OnLastCell == pointer = Len(mem) - 1

\* C13: over a run the tape never shrinks and no cell changes its index; the length
\* changes only in a move-right step taken with the pointer on the last cell, which
\* appends exactly one cell of value 0; a move-right away from the right edge, a
\* move-left and every other step leave the length as it was.
TapeGrowsAtEdgeOnly ==
    [][RunStep =>
          /\ Len(mem') >= Len(mem)
          /\ (At(">") /\ OnLastCell) => mem' = Append(mem, 0)
          /\ (At(">") /\ ~OnLastCell) => mem' = mem
          /\ At("<") => mem' = mem
          /\ ~At(">") => Len(mem') = Len(mem)
          /\ \A i \in 1..Len(mem) : (i # pointer + 1) => mem'[i] = mem[i]
      ]_vars

\* C13 witness: the run moved right (the tape grew), wrote the new cell, moved left and
\* right again: the second move-right, away from the edge, left the two cells in place.
TapeGrowsAtEdgeOnlyWitness ==
    /\ Len(trace) >= 4
    /\ trace[Len(trace)][2] = ">" /\ trace[Len(trace) - 1][2] = "<"
    /\ pointer = 1 /\ mem = <<0, 1>>

\* the constructor has been called with an integer cell width
CalledWithInt == host.width = "int" /\ pc \notin {"unconstructed", "exited"}

\* C14: constructing with a cell width <= 0 fails with the configuration error before
\* any run can start (no eval is ever accepted by that instance), and nothing else is
\* checked: for every width >= 1 the construction succeeds with
\* MaxCellValue = 2^width - 1.
WidthCheckedAtConstruction ==
    /\ [](CalledWithInt =>
            /\ cell_size <= 0 => (pc = "config_error" /\ evals = 0 /\ trace = <<>> /\ script = <<>>)
            /\ cell_size >= 1 => (pc # "config_error" /\ MAX_CELL_VALUE = Pow2(cell_size) - 1))
    /\ [][pc = "config_error" => pc' = "config_error"]_vars

\* C14 witness: the construction with the largest rejected width, 0, has failed.
WidthCheckedAtConstructionWitness ==
    pc = "config_error" /\ cell_size = 0 /\ host.kind = "library"

\* the command line held a script path and --cell-size with a width below 1, and the
\* process has ended
InvalidWidthGiven ==
    /\ host.kind = "cli" /\ host.width = "str" /\ cell_size < 1
    /\ host.status # StillRunning

\* C15: when the command line holds a script path and an invalid cell width, the user
\* is shown the message of the construction failure, no instruction of the script is
\* executed and the process ends with a non-zero exit status.
CliReportsInvalidWidth ==
    InvalidWidthGiven =>
        /\ host.console = "message"
        /\ trace = <<>> /\ evals = 0
        /\ host.status # 0

FlatIndex(p) == CHOOSE i \in 1..Len(Flat) : Pos(Flat[i]) = p

\* the Position of the bracket that matches, by nesting, the bracket at Position p
MatchingPosition(p) == Pos(Flat[MatchOf(Flat, FlatIndex(p))])

LastDispatched == trace[Len(trace)]

ColumnAfter(p) == <<p[1], p[2] + 1>>

\* the last instruction dispatched was a loop-open met on a zero cell: the cursor is on
\* its matching loop-close
JustSkippedLoop ==
    /\ pc \in {"outer", "inner"} /\ trace # <<>>
    /\ LastDispatched[2] = "[" /\ position = MatchingPosition(LastDispatched[1])
    /\ Cell = 0

\* C16: a loop-open executed on a zero cell sets the cursor to the Position of its
\* matching loop-close, on whatever line it is; the next instruction dispatched is that
\* loop-close, which falls through to the column after it, so nothing between the
\* brackets is executed, and tape and pointer stay as they were; on a non-zero cell the
\* loop-open only advances the cursor one column.
LoopOpenSkipsOnZero ==
    [][ /\ (At("[") /\ Cell = 0) =>
              /\ position' = MatchingPosition(position) /\ pc' = "outer"
              /\ mem' = mem /\ pointer' = pointer
        /\ (At("[") /\ Cell # 0) =>
              /\ position' = ColumnAfter(position) /\ pc' = "inner"
              /\ mem' = mem /\ pointer' = pointer
        /\ JustSkippedLoop =>
              /\ mem' = mem /\ pointer' = pointer
              /\ \/ pc = "outer" /\ pc' = "inner" /\ position' = position /\ trace' = trace
                 \/ /\ pc = "inner" /\ pc' = "inner"
                    /\ trace' = Append(trace, <<position, "]">>)
                    /\ position' = ColumnAfter(position)
      ]_vars

\* C16 witness: a run has ended that dispatched two instructions only, a loop-open and
\* its loop-close two lines below, the loop between them skipped.
LoopOpenSkipsOnZeroWitness ==
    /\ pc = "halted" /\ Len(trace) = 2 /\ Len(Flat) = 4
    /\ trace[1] = <<(<<0, 0>>), "[">> /\ trace[2] = <<(<<2, 0>>), "]">>
    /\ mem = <<0>> /\ pointer = 0

\* the last instruction dispatched was a loop-close met on a non-zero cell: the cursor
\* is on its matching loop-open
JustRepeatedLoop ==
    /\ pc \in {"outer", "inner"} /\ trace # <<>>
    /\ LastDispatched[2] = "]" /\ position = MatchingPosition(LastDispatched[1])
    /\ Cell # 0

\* C17: a loop-close executed on a non-zero cell sets the cursor to the Position of its
\* matching loop-open, on whatever line it is; the next instruction dispatched is that
\* loop-open, which tests the cell again (and enters the body); on a zero cell the
\* loop-close advances the cursor one column. The cursor passes a loop-close only when
\* the cell is 0, and a loop-close changes neither tape nor pointer.
LoopCloseRepeatsOnNonZero ==
    [][ /\ (At("]") /\ Cell # 0) =>
              /\ position' = MatchingPosition(position) /\ pc' = "outer"
        /\ (At("]") /\ Cell = 0) =>
              /\ position' = ColumnAfter(position) /\ pc' = "inner"
        /\ At("]") =>
              /\ mem' = mem /\ pointer' = pointer
              /\ position' = ColumnAfter(position) <=> Cell = 0
        /\ JustRepeatedLoop =>
              /\ mem' = mem /\ pointer' = pointer
              /\ \/ pc = "outer" /\ pc' = "inner" /\ position' = position /\ trace' = trace
                 \/ /\ pc = "inner" /\ pc' = "inner"
                    /\ trace' = Append(trace, <<position, "[">>)
                    /\ position' = ColumnAfter(position)
      ]_vars

\* C17 witness: a run has ended in which a loop-close was followed by its loop-open on
\* the line above (the loop repeated), and the last instruction was a loop-close.
LoopCloseRepeatsOnNonZeroWitness ==
    /\ pc = "halted" /\ trace # <<>> /\ LastDispatched[2] = "]" /\ Cell = 0
    /\ \E i \in 1..(Len(trace) - 1) :
          /\ trace[i][2] = "]" /\ trace[i + 1][2] = "["
          /\ trace[i + 1][1][1] < trace[i][1][1]

\* the column cursor is at the end of the current line
AtEndOfLine ==
    /\ pc \in {"outer", "inner"} /\ position[1] < Len(script)
    /\ position[2] >= Len(script[position[1] + 1][2])

\* C18: when the column cursor is at the end of the current line, the next value the
\* cursor takes is (line index + 1, column 0), and it does take it: until then no
\* instruction is dispatched and tape, pointer and output stay as they are, whatever
\* was executed last on the line and however the line was entered.
EndOfLineAdvances ==
    /\ [][AtEndOfLine =>
            /\ trace' = trace /\ mem' = mem /\ pointer' = pointer /\ output' = output
            /\ position' = position \/ position' = <<position[1] + 1, 0>>
         ]_vars
    /\ AtEndOfLine ~> ~AtEndOfLine

\* C18 witness: the cursor is at the start of a line, the line before having ended just
\* after an instruction whose handler returns nothing, and an earlier line of the
\* program held a comment character only.
EndOfLineAdvancesWitness ==
    /\ pc = "inner" /\ position = <<2, 0>> /\ trace # <<>>
    /\ LastDispatched[2] = "+" /\ LastDispatched[1][1] = 1
    /\ position_changed = "False"
    /\ \A c \in 1..Len(script[1][2]) : script[1][2][c] \notin INSTRUCTIONS

\* the offsets of the instructions the linear reference evaluator executes, in order,
\* up to the end of the program, a fault, the end of the input or MaxSteps instructions
RECURSIVE LinearTrace(_, _, _, _)
LinearTrace(f, max, inputs, r) ==
    IF r.ip > Len(f) \/ r.fuel = 0 THEN r.ran
    ELSE IF f[r.ip].ch \notin INSTRUCTIONS
    THEN LinearTrace(f, max, inputs, [r EXCEPT !.ip = @ + 1])
    ELSE
    LET c == f[r.ip].ch
        v == r.tape[r.ptr + 1]
        s == [r EXCEPT !.fuel = @ - 1, !.ip = @ + 1, !.ran = Append(@, r.ip)]
    IN  CASE c = ">" ->
               LinearTrace(f, max, inputs,
                           [s EXCEPT !.ptr = @ + 1,
                                     !.tape = IF r.ptr + 1 = Len(r.tape) THEN Append(@, 0) ELSE @])
          [] c = "<" -> LinearTrace(f, max, inputs, [s EXCEPT !.ptr = IF @ > 0 THEN @ - 1 ELSE 0])
          [] c = "+" -> LinearTrace(f, max, inputs, [s EXCEPT !.tape[r.ptr + 1] = (v + 1) % (max + 1)])
          [] c = "-" -> LinearTrace(f, max, inputs, [s EXCEPT !.tape[r.ptr + 1] = (v - 1) % (max + 1)])
          [] c = "." -> IF v > MaxCodePoint THEN s.ran ELSE LinearTrace(f, max, inputs, s)
          [] c = "," ->
               IF r.used >= Len(inputs) THEN s.ran
               ELSE LinearTrace(f, max, inputs,
                                [s EXCEPT !.used = @ + 1,
                                          !.tape[r.ptr + 1] = inputs[r.used + 1] % max])
          [] c = "[" ->
               LinearTrace(f, max, inputs, [s EXCEPT !.ip = IF v = 0 THEN MatchOf(f, r.ip) ELSE r.ip + 1])
          [] c = "]" ->
               LinearTrace(f, max, inputs, [s EXCEPT !.ip = IF v # 0 THEN MatchOf(f, r.ip) ELSE r.ip + 1])

FreshTrace(f, w, inputs) ==
    LinearTrace(f, Pow2(w) - 1, inputs,
                [ip |-> 1, ptr |-> 0, tape |-> <<0>>, used |-> 0, fuel |-> MaxSteps, ran |-> <<>>])

\* C19: the evaluator with the (line, column) cursor and an evaluator that runs one
\* offset over the concatenated lines of Program agree on every balanced program and
\* every input: the instructions dispatched so far are, in order, the first ones the
\* linear evaluator executes, a run that ends has dispatched all of them, and it ends
\* as the linear one does, with the same output, tape and pointer.
LinearEquivalent ==
    pc \in {"outer", "inner", "halted", "fault"} =>
        LET lin == FreshTrace(Flat, cell_size, stdin_read)
            res == FreshRun(Flat, cell_size, stdin_read)
        IN  /\ Len(trace) <= Len(lin)
            /\ \A i \in 1..Len(trace) : trace[i] = <<Pos(Flat[lin[i]]), Flat[lin[i]].ch>>
            /\ pc \in {"halted", "fault"} =>
                  /\ Len(trace) = Len(lin)
                  /\ res = [status |-> pc, output |-> output, mem |-> mem, pointer |-> pointer]

\* C19 witness: a run has ended of a program whose loop has its delimiters on different
\* lines and was repeated (more instructions were dispatched than the program holds).
LinearEquivalentWitness ==
    /\ pc = "halted" /\ Len(trace) > Len(Flat)
    /\ \E i, j \in 1..Len(Flat) : Matches(Flat, i, j) /\ Flat[i].li # Flat[j].li
    /\ Len(trace) = Len(FreshTrace(Flat, cell_size, stdin_read))

\* the characters of the raw source text, line ends and blank lines included
RawFlat == [i \in 1..Len(code) |-> [ch |-> code[i]]]

\* the bracket of the raw text the build fails on
RawOffender ==
    IF UnexpectedCloses(RawFlat) # {} THEN Least(UnexpectedCloses(RawFlat))
    ELSE Greatest(UnmatchedOpens(RawFlat))

LineEndsBefore(i) == {j \in 1..(i - 1) : code[j] = "\n"}

\* the 0-based number of the line of raw character i, blank lines counted
RawLineOf(i) == Cardinality(LineEndsBefore(i))

\* the 1-based column of raw character i in its line
RawColumnOf(i) == i - (IF LineEndsBefore(i) = {} THEN 0 ELSE Greatest(LineEndsBefore(i)))

\* the bracket of Program (the non-blank lines) the build fails on
Offender ==
    IF UnexpectedCloses(Flat) # {} THEN Flat[Least(UnexpectedCloses(Flat))]
    ELSE Flat[Greatest(UnmatchedOpens(Flat))]

\* C20 as stated: the line a syntax error reports is the bracket's line index in Program
\* (the sequence of non-blank lines) made 1-based.
ReportsFilteredLine ==
    pc = "syntax_error" => error.line = Offender.li + 1

\* C20 amended: blank lines are dropped before indexing, and the cursor, the scan and
\* the jump table keys index the sequence of non-blank lines; but the line a syntax
\* error reports is the bracket's line number in the raw text, blank lines counted,
\* made 1-based, which exceeds the 1-based index in Program by the number of blank
\* lines above the bracket.
ReportsRawLine ==
    /\ pc = "syntax_error" =>
          /\ error.line = RawLineOf(RawOffender) + 1
          /\ error.position = RawColumnOf(RawOffender)
          /\ error.line = Offender.li + 1
                + Cardinality({n \in 0..(Offender.no - 1) : \A k \in 1..Len(script) : script[k][1] # n})
    /\ Constructed =>
          /\ \A k \in 1..Len(script) : strip(script[k][2]) # <<>>
          /\ \A p \in DOMAIN loops_map : p[1] < Len(script) /\ p[2] < Len(script[p[1] + 1][2])
          /\ pc \in {"outer", "inner"} => position[1] <= Len(script)
          /\ pc = "build" => line_index <= Len(script)

\* C20 witness: the build failed on a bracket of the first non-blank line, which has
\* blank lines above it, with a syntax error that reports a line beyond 1.
ReportsRawLineWitness ==
    /\ pc = "syntax_error" /\ Offender.li = 0 /\ error.line >= 3

====
